---- MODULE Spec2Model ----
(***************************************************************************)
(* A model of the validators of openapi_to_fastapi/validator:              *)
(*   core.py            BaseValidator, DefaultValidator                    *)
(*   ihan_standards.py  validate_component_schema, validate_spec,          *)
(*                      check_extra_files_exist, IhanStandardsValidator,   *)
(*                      find_urls_in_jsonld, JsonLdUrlValidator            *)
(*                                                                         *)
(* Encoding of Python values                                               *)
(*   dict          a function whose domain is the set of keys; {} is <<>>  *)
(*   ordered dict  a sequence of <<key, value>> pairs, where the order of  *)
(*                 iteration is read (path items, JSON-LD documents)       *)
(*   str           a sequence of one-character strings where the code      *)
(*                 applies a string operation to it (startswith, split,    *)
(*                 lower, strip); a TLA+ string where it is only compared  *)
(*   None          <<>> where the code only tests the value's truth;       *)
(*                 a tagged value where the code calls a method on it      *)
(*   exception     a record [exc |-> class name, msg |-> which message]    *)
(***************************************************************************)
EXTENDS Integers, Sequences, FiniteSets, TLC

VARIABLES
    spec,               \* validate_spec's argument: the decoded document
    components_schema,  \* validate_component_schema's second argument
    files,              \* the file system seen by validate / collect_artifacts
    pc,                 \* position of the running call
    result,             \* what the call returned or raised
    log,                \* the phases of validate entered so far, in order
    artifacts,          \* run_post_validation's argument
    todo,               \* run_post_validation: <<artifact index, urls left>>
    urls_to_jsonld,     \* run_post_validation: ordered url -> list of paths
    cursor,             \* run_post_validation: next entry of urls_to_jsonld
    requests,           \* every requests.get issued, in order: <<url, outcome>>
    error_message       \* run_post_validation: the report, a sequence of lines

vars == <<spec, components_schema, files, pc, result, log, artifacts, todo,
          urls_to_jsonld, cursor, requests, error_message>>

----------------------------------------------------------------------------
(* Python values *)

EmptyDict == <<>>
None == <<>>
EmptyStr == <<>>

\* bool(v) of a dict, a str or None
Truthy(v) == DOMAIN v # {}

\* d.get(k, default)
Get(d, k, default) == IF k \in DOMAIN d THEN d[k] ELSE default

\* x in lst, for a list
InList(x, lst) == \E i \in DOMAIN lst : lst[i] = x

\* s.startswith(prefix)
StartsWith(s, prefix) ==
    /\ Len(s) >= Len(prefix)
    /\ \A i \in 1..Len(prefix) : s[i] = prefix[i]

\* s.split(sep) for a one-character separator
Split(s, sep) ==
    LET RECURSIVE go(_, _, _)
        go(i, cur, acc) ==
            IF i > Len(s) THEN Append(acc, cur)
            ELSE IF s[i] = sep THEN go(i + 1, <<>>, Append(acc, cur))
            ELSE go(i + 1, Append(cur, s[i]), acc)
    IN go(1, <<>>, <<>>)

UpperCase == <<"A", "B", "C", "D", "E", "F", "G", "H", "I", "J", "K", "L", "M",
               "N", "O", "P", "Q", "R", "S", "T", "U", "V", "W", "X", "Y", "Z">>
LowerCase == <<"a", "b", "c", "d", "e", "f", "g", "h", "i", "j", "k", "l", "m",
               "n", "o", "p", "q", "r", "s", "t", "u", "v", "w", "x", "y", "z">>

\* s.lower() on ASCII text
Lower(s) ==
    [i \in DOMAIN s |->
        IF \E j \in DOMAIN UpperCase : UpperCase[j] = s[i]
        THEN LowerCase[CHOOSE j \in DOMAIN UpperCase : UpperCase[j] = s[i]]
        ELSE s[i]]

\* list(d) and d[k] of an ordered dict
ListKeys(d) == [i \in DOMAIN d |-> d[i][1]]
Item(d, k) == d[CHOOSE i \in DOMAIN d : d[i][1] = k][2]

Raise(exc, msg) == [exc |-> exc, msg |-> msg]
Returned == [exc |-> "none", msg |-> ""]

----------------------------------------------------------------------------
(* ihan_standards.py: validate_component_schema *)

RefPrefix == <<"#", "/", "c", "o", "m", "p", "o", "n", "e", "n", "t", "s", "/",
               "s", "c", "h", "e", "m", "a", "s", "/">>

validate_component_schema(body, schemas) ==
    IF ~Truthy(Get(body["content"], "application/json", None))
    THEN Raise("WrongContentType", "not application/json")
    ELSE
    LET ref == Get(Get(body["content"]["application/json"], "schema", EmptyDict),
                   "$ref", None)
    IN  IF ~Truthy(ref)
        THEN Raise("SchemaMissing", "no $ref")
        ELSE IF ~StartsWith(ref, RefPrefix)
        THEN Raise("SchemaMissing", "wrong location")
        ELSE
        LET parts == Split(ref, "/")
            model_name == parts[Len(parts)]
        IN  IF ~Truthy(Get(schemas, model_name, None))
            THEN Raise("SchemaMissing", "component not found")
            ELSE Returned

----------------------------------------------------------------------------
(* ihan_standards.py: validate_spec *)

s_authorization ==
    <<"a", "u", "t", "h", "o", "r", "i", "z", "a", "t", "i", "o", "n">>
s_x_authorization_provider ==
    <<"x", "-", "a", "u", "t", "h", "o", "r", "i", "z", "a", "t", "i", "o", "n",
      "-", "p", "r", "o", "v", "i", "d", "e", "r">>

\* Variant of HeaderNames that compares the names as written (no lower()):
\* C9_HeaderRule must tell it apart from the code.
HeaderNames_CaseSensitive(params) ==
    LET RECURSIVE go(_)
        go(i) ==
            IF i > Len(params) THEN <<>>
            ELSE IF Get(params[i], "in", "") = "header"
                 THEN <<Get(params[i], "name", EmptyStr)>> \o go(i + 1)
                 ELSE go(i + 1)
    IN go(1)

\* the list comprehension of lines 120-124
HeaderNames(params) ==
    LET RECURSIVE go(_)
        go(i) ==
            IF i > Len(params) THEN <<>>
            ELSE IF Get(params[i], "in", "") = "header"
                 THEN <<Lower(Get(params[i], "name", EmptyStr))>> \o go(i + 1)
                 ELSE go(i + 1)
    IN go(1)

\* lines 120-128
validate_headers(post_route) ==
    LET headers == HeaderNames(Get(post_route, "parameters", <<>>))
    IN  IF ~InList(s_authorization, headers)
        THEN Raise("AuthorizationHeaderMissing", "")
        ELSE IF ~InList(s_x_authorization_provider, headers)
        THEN Raise("AuthProviderHeaderMissing", "")
        ELSE Returned

\* lines 108-128, with post_route bound by the loop of lines 100-106
validate_post_route(doc, post_route) ==
    LET component_schemas == Get(Get(doc, "components", EmptyDict), "schemas", None)
        request == IF Truthy(Get(Get(post_route, "requestBody", EmptyDict),
                                 "content", None))
                   THEN validate_component_schema(post_route["requestBody"],
                                                  component_schemas)
                   ELSE Returned
        responses == Get(post_route, "responses", EmptyDict)
    IN  IF ~Truthy(component_schemas)
        THEN Raise("SchemaMissing", "no components/schemas")
        ELSE IF request # Returned
        THEN request
        ELSE IF \/ ~Truthy(Get(responses, "200", None))
                \/ ~Truthy(Get(responses["200"], "content", None))
        THEN Raise("ResponseBodyMissing", "")
        ELSE
        LET response == validate_component_schema(responses["200"],
                                                  component_schemas)
        IN  IF response # Returned THEN response
            ELSE validate_headers(post_route)

\* lines 99-106: the for loop over a dict of exactly one entry
validate_path_item(doc, path) ==
    LET methods == ListKeys(path)
    IN  IF ~InList("post", methods)
        THEN Raise("PostMethodIsMissing", "")
        ELSE IF methods # <<"post">>
        THEN Raise("OnlyPostMethodAllowed", "")
        ELSE validate_post_route(doc, Item(path, "post"))

validate_spec(doc) ==
    LET paths == Get(doc, "paths", EmptyDict)
    IN  IF ~Truthy(paths)
        THEN Raise("NoEndpointsDefined", "")
        ELSE IF Cardinality(DOMAIN paths) > 1
        THEN Raise("OnlyOneEndpointAllowed", "")
        ELSE validate_path_item(doc, paths[CHOOSE name \in DOMAIN paths : TRUE])

----------------------------------------------------------------------------
(* core.py: DefaultValidator.validate_spec *)

\* A JSON value whose type the code depends on carries its type
JStr(s) == [t |-> "str", s |-> s]
JNum(n) == [t |-> "num", n |-> n]
JNull == [t |-> "null"]

\* spec.get("openapi", "").startswith("3"): only str has startswith
DefaultValidator_validate_spec(doc) ==
    LET openapi == Get(doc, "openapi", JStr(EmptyStr))
    IN  IF openapi.t # "str"
        THEN Raise("AttributeError", "startswith")
        ELSE IF ~StartsWith(openapi.s, <<"3">>)
        THEN Raise("UnsupportedVersion", "")
        ELSE Returned

----------------------------------------------------------------------------
(* The documents the checks are run on *)

Foo == <<"F", "o", "o">>
Bar == <<"B", "a", "r">>
RefTo(name) == RefPrefix \o name
RefOutside == <<"#", "/", "d", "e", "f", "i", "n", "i", "t", "i", "o", "n", "s",
                "/">> \o Foo
RefNested == RefTo(<<"x", "/">> \o Foo)

ObjectSchema == [type |-> "object"]
ComponentNames == {Foo, Bar}

\* every non-empty components.schemas over ComponentNames; a component's
\* schema is {} or {"type": "object"}
SchemaDicts ==
    UNION {[S -> {EmptyDict, ObjectSchema}] : S \in (SUBSET ComponentNames) \ {{}}}

MediaWithRef(ref) == [schema |-> ("$ref" :> ref)]
MediaObjects(refs) ==
    {EmptyDict, [schema |-> EmptyDict], [schema |-> ObjectSchema]}
        \cup {MediaWithRef(r) : r \in refs}

\* non-empty "content" dicts
Contents(refs) ==
    {("text/plain" :> [schema |-> ObjectSchema])}
        \cup {("application/json" :> m) : m \in MediaObjects(refs)}

AllRefs == {EmptyStr, RefPrefix, RefTo(Foo), RefTo(Bar), RefOutside, RefNested}

\* {k: v} for each v, and {} for the key left out
Opt(k, vs) == {EmptyDict} \cup {(k :> v) : v \in vs}

\* what validate_component_schema is called on: a body whose content is
\* non-empty (lines 112 and 116 guard both calls)
SchemaBodies ==
    {[content |-> c] @@ d : c \in Contents(AllRefs) \cup
                                  {("application/json" :> MediaWithRef(r))
                                       @@ ("text/plain" :> EmptyDict) : r \in AllRefs},
                            d \in Opt("description", {"a body"})}

Pending == [exc |-> "pending", msg |-> ""]
Idle == <<>>

InitSchema ==
    /\ spec \in SchemaBodies
    /\ components_schema \in SchemaDicts
    /\ pc = "validate_component_schema"
    /\ result = Pending
    /\ files = Idle /\ log = <<>> /\ artifacts = <<>> /\ todo = Idle
    /\ urls_to_jsonld = <<>> /\ cursor = 0 /\ requests = <<>>
    /\ error_message = <<>>

ValidateComponentSchema ==
    /\ pc = "validate_component_schema"
    /\ result' = validate_component_schema(spec, components_schema)
    /\ pc' = "done"
    /\ UNCHANGED <<spec, components_schema, files, log, artifacts, todo,
                   urls_to_jsonld, cursor, requests, error_message>>

NextSchema == ValidateComponentSchema
SpecSchema == InitSchema /\ [][NextSchema]_vars

----------------------------------------------------------------------------
(* C3 *)

\* the body's schema $ref, when it has one
HasRef(body) ==
    /\ "application/json" \in DOMAIN body["content"]
    /\ "schema" \in DOMAIN body["content"]["application/json"]
    /\ "$ref" \in DOMAIN body["content"]["application/json"]["schema"]
RefOf(body) == body["content"]["application/json"]["schema"]["$ref"]

\* the $ref begins with #/components/schemas/ and the whole remainder after
\* the prefix is a key of components.schemas
RefResolves(body, schemas) ==
    /\ HasRef(body)
    /\ StartsWith(RefOf(body), RefPrefix)
    /\ SubSeq(RefOf(body), Len(RefPrefix) + 1, Len(RefOf(body))) \in DOMAIN schemas

\* C3: a body with an application/json entry is accepted exactly when its
\* $ref begins with #/components/schemas/ and names a key of
\* components.schemas; a $ref that does not resolve yields SchemaMissing and
\* one that resolves (also to an empty schema object) never does.
C3_AcceptsExactlyResolvingRefs ==
    (pc = "done" /\ "application/json" \in DOMAIN spec["content"]) =>
        /\ (result = Returned) <=> RefResolves(spec, components_schema)
        /\ (HasRef(spec) /\ ~RefResolves(spec, components_schema))
               => result.exc = "SchemaMissing"
        /\ RefResolves(spec, components_schema) => result.exc # "SchemaMissing"

----------------------------------------------------------------------------
(* IHAN documents *)

n_Authorization ==
    <<"A", "u", "t", "h", "o", "r", "i", "z", "a", "t", "i", "o", "n">>
n_AUTHORIZATION ==
    <<"A", "U", "T", "H", "O", "R", "I", "Z", "A", "T", "I", "O", "N">>
n_X_Authorization_Provider ==
    <<"X", "-", "A", "u", "t", "h", "o", "r", "i", "z", "a", "t", "i", "o", "n",
      "-", "P", "r", "o", "v", "i", "d", "e", "r">>
n_accept == <<"a", "c", "c", "e", "p", "t">>

Param(name, in) == [name |-> name, in |-> in]

\* all sequences over S of length at most n
SeqsUpTo(S, n) == UNION {[1..k -> S] : k \in 0..n}

\* all ordered dicts with at most n distinct keys of K, values given by val
OrderedDicts(K, n, val) ==
    {[i \in DOMAIN ks |-> <<ks[i], val[ks[i]]>>] :
        ks \in {q \in SeqsUpTo(K, n) :
                    \A i, j \in DOMAIN q : i # j => q[i] # q[j]}}

IhanRefs == {RefTo(Foo), RefTo(Bar), RefOutside}

\* requestBody / responses["200"] values
IhanBodies ==
    {EmptyDict, [content |-> EmptyDict]}
        \cup {[content |-> c] : c \in Contents(IhanRefs)}

IhanResponses ==
    {EmptyDict, ("404" :> [content |-> EmptyDict])}
        \cup {("200" :> b) : b \in IhanBodies}

IhanParameters ==
    SeqsUpTo({Param(n_Authorization, "header"),
              Param(n_X_Authorization_Provider, "header")}, 2)

IhanPostRoutes ==
    {a @@ b @@ c : a \in Opt("requestBody", IhanBodies),
                   b \in Opt("responses", IhanResponses),
                   c \in Opt("parameters", IhanParameters)}

ConformantPostRoute ==
    [requestBody |-> [content |-> ("application/json" :> MediaWithRef(RefTo(Foo)))],
     responses |-> ("200" :>
         [content |-> ("application/json" :> MediaWithRef(RefTo(Bar)))]),
     parameters |-> <<Param(n_Authorization, "header"),
                      Param(n_X_Authorization_Provider, "header")>>]

PathKeys == {"post", "get", "parameters"}
MaxPathKeys == 2

\* path items: the post operation varies, the other keys' values are not read
PathItems(post_routes) ==
    UNION {OrderedDicts(PathKeys, MaxPathKeys,
                        [k \in PathKeys |-> IF k = "post" THEN r ELSE EmptyDict]) :
           r \in post_routes}

IhanPaths(post_routes) ==
    {EmptyDict,
     ("/a" :> <<<<"post", ConformantPostRoute>>>>)
         @@ ("/b" :> <<<<"post", ConformantPostRoute>>>>),
     ("/a" :> <<<<"get", EmptyDict>>>>) @@ ("/b" :> <<>>)}
        \cup {("/a" :> item) : item \in PathItems(post_routes)}

IhanComponents ==
    {EmptyDict, [schemas |-> EmptyDict],
     [schemas |-> (Foo :> ObjectSchema)],
     [schemas |-> (Foo :> EmptyDict) @@ (Bar :> ObjectSchema)],
     [schemas |-> (Foo :> ObjectSchema) @@ (Bar :> ObjectSchema)]}

IhanDocs ==
    {a @@ b : a \in Opt("paths", IhanPaths(IhanPostRoutes)),
              b \in Opt("components", IhanComponents)}

InitIhan ==
    /\ spec \in IhanDocs
    /\ pc = "validate_spec"
    /\ result = Pending
    /\ components_schema = Idle
    /\ files = Idle /\ log = <<>> /\ artifacts = <<>> /\ todo = Idle
    /\ urls_to_jsonld = <<>> /\ cursor = 0 /\ requests = <<>>
    /\ error_message = <<>>

\* IhanStandardsValidator.validate_spec(spec)
ValidateSpec ==
    /\ pc = "validate_spec"
    /\ result' = validate_spec(spec)
    /\ pc' = "done"
    /\ UNCHANGED <<spec, components_schema, files, log, artifacts, todo,
                   urls_to_jsonld, cursor, requests, error_message>>

NextIhan == ValidateSpec
SpecIhan == InitIhan /\ [][NextIhan]_vars

----------------------------------------------------------------------------
(* C1, C2: the rules of validate_spec as the specification states them *)

\* the two names are equal ignoring the case of their letters
EqualsIgnoringCase(a, b) ==
    /\ Len(a) = Len(b)
    /\ \A i \in DOMAIN a :
           \/ a[i] = b[i]
           \/ \E j \in DOMAIN UpperCase :
                  {a[i], b[i]} = {UpperCase[j], LowerCase[j]}

\* some parameter of the operation is located in the header and has the name
HasHeader(post_route, name) ==
    /\ "parameters" \in DOMAIN post_route
    /\ \E i \in DOMAIN post_route["parameters"] :
           LET param == post_route["parameters"][i]
           IN  /\ "in" \in DOMAIN param /\ param["in"] = "header"
               /\ "name" \in DOMAIN param
               /\ EqualsIgnoringCase(param["name"], name)

HasContent(post_route, key) == 
    /\ key \in DOMAIN post_route
    /\ "content" \in DOMAIN post_route[key]
    /\ post_route[key]["content"] # EmptyDict

\* the single path item and its post operation, where the document has them
ThePathItem(doc) == doc["paths"][CHOOSE name \in DOMAIN doc["paths"] : TRUE]
ThePostRoute(doc) == Item(ThePathItem(doc), "post")
TheSchemas(doc) == doc["components"]["schemas"]

Rule1(doc) == "paths" \in DOMAIN doc /\ doc["paths"] # EmptyDict
Rule2(doc) == Cardinality(DOMAIN doc["paths"]) = 1
Rule3a(doc) == \E i \in DOMAIN ThePathItem(doc) : ThePathItem(doc)[i][1] = "post"
Rule3b(doc) == \A i \in DOMAIN ThePathItem(doc) : ThePathItem(doc)[i][1] = "post"
Rule4(doc) ==
    /\ "components" \in DOMAIN doc
    /\ "schemas" \in DOMAIN doc["components"]
    /\ TheSchemas(doc) # EmptyDict
Rule5(doc) ==
    HasContent(ThePostRoute(doc), "requestBody")
        => RefResolves(ThePostRoute(doc)["requestBody"], TheSchemas(doc))
Rule6a(doc) ==
    /\ "responses" \in DOMAIN ThePostRoute(doc)
    /\ HasContent(ThePostRoute(doc)["responses"], "200")
Rule6b(doc) ==
    RefResolves(ThePostRoute(doc)["responses"]["200"], TheSchemas(doc))
Rule7a(doc) == HasHeader(ThePostRoute(doc), s_authorization)
Rule7b(doc) == HasHeader(ThePostRoute(doc), s_x_authorization_provider)

SchemaErrors == {"WrongContentType", "SchemaMissing"}

\* the outcomes the rules allow: the error of the first violated rule
Expected(doc) ==
    IF ~Rule1(doc) THEN {"NoEndpointsDefined"}
    ELSE IF ~Rule2(doc) THEN {"OnlyOneEndpointAllowed"}
    ELSE IF ~Rule3a(doc) THEN {"PostMethodIsMissing"}
    ELSE IF ~Rule3b(doc) THEN {"OnlyPostMethodAllowed"}
    ELSE IF ~Rule4(doc) THEN {"SchemaMissing"}
    ELSE IF ~Rule5(doc) THEN SchemaErrors
    ELSE IF ~Rule6a(doc) THEN {"ResponseBodyMissing"}
    ELSE IF ~Rule6b(doc) THEN SchemaErrors
    ELSE IF ~Rule7a(doc) THEN {"AuthorizationHeaderMissing"}
    ELSE IF ~Rule7b(doc) THEN {"AuthProviderHeaderMissing"}
    ELSE {"none"}

\* C1: validate_spec succeeds exactly when all seven rules hold, and
\* otherwise raises the error of the first violated rule, in the order of
\* the rules.
C1_FirstViolatedRule ==
    pc = "done" => result.exc \in Expected(spec)

HttpMethods ==
    {"get", "put", "post", "delete", "options", "head", "patch", "trace"}

\* C2: with exactly one path, PostMethodIsMissing is raised exactly when the
\* path item has no post key, OnlyPostMethodAllowed exactly when it has post
\* and another HTTP method; a path item whose only HTTP method is post passes
\* the rule whatever other keys it has.
C2_OnlyOtherMethodsRejected ==
    (pc = "done" /\ Rule1(spec) /\ Rule2(spec)) =>
        LET keys == {ThePathItem(spec)[i][1] : i \in DOMAIN ThePathItem(spec)}
        IN  /\ result.exc = "PostMethodIsMissing" <=> "post" \notin keys
            /\ result.exc = "OnlyPostMethodAllowed"
                   <=> ("post" \in keys /\ (keys \cap HttpMethods) # {"post"})
            /\ keys \cap HttpMethods = {"post"}
                   => result.exc \notin {"PostMethodIsMissing",
                                         "OnlyPostMethodAllowed"}

----------------------------------------------------------------------------
(* C9: the header rule, on documents that differ in their parameters *)

MaxParams == 2

HeaderParams ==
    {a @@ b :
        a \in Opt("name", {n_Authorization, n_AUTHORIZATION, s_authorization,
                           n_X_Authorization_Provider,
                           s_x_authorization_provider, n_accept}),
        b \in Opt("in", {"header", "query", "cookie"})}

HeaderPostRoutes ==
    {a @@ b @@ c :
        a \in Opt("requestBody", {ConformantPostRoute["requestBody"]}),
        b \in {[responses |-> ConformantPostRoute["responses"]]},
        c \in Opt("parameters", SeqsUpTo(HeaderParams, MaxParams))}

HeaderDocs ==
    {[paths |-> ("/a" :> <<<<"post", r>>>>),
      components |-> [schemas |-> (Foo :> ObjectSchema) @@ (Bar :> ObjectSchema)]] :
        r \in HeaderPostRoutes}

InitHeaders ==
    /\ spec \in HeaderDocs
    /\ pc = "validate_spec"
    /\ result = Pending
    /\ components_schema = Idle
    /\ files = Idle /\ log = <<>> /\ artifacts = <<>> /\ todo = Idle
    /\ urls_to_jsonld = <<>> /\ cursor = 0 /\ requests = <<>>
    /\ error_message = <<>>

SpecHeaders == InitHeaders /\ [][NextIhan]_vars

\* validate_spec got as far as the header rule (line 120)
ReachedHeaderRule ==
    /\ pc = "done"
    /\ result.exc \in {"none", "AuthorizationHeaderMissing",
                       "AuthProviderHeaderMissing"}

\* C9: the header rule passes exactly when some parameter located in the
\* header is named authorization ignoring case and some parameter located in
\* the header is named x-authorization-provider ignoring case; parameters in
\* other locations do not count; with authorization absent (also when both
\* are) AuthorizationHeaderMissing is raised, with only the provider header
\* absent AuthProviderHeaderMissing.
C9_HeaderRule ==
    ReachedHeaderRule =>
        /\ result = Returned <=> (Rule7a(spec) /\ Rule7b(spec))
        /\ ~Rule7a(spec) => result.exc = "AuthorizationHeaderMissing"
        /\ (Rule7a(spec) /\ ~Rule7b(spec))
               => result.exc = "AuthProviderHeaderMissing"

\* the rule passes on names that match only when case is ignored
C9_Witness ==
    /\ ReachedHeaderRule /\ result = Returned
    /\ \A i \in DOMAIN ThePostRoute(spec)["parameters"] :
           Get(ThePostRoute(spec)["parameters"][i], "name", EmptyStr)
               \notin {s_authorization, s_x_authorization_provider}

----------------------------------------------------------------------------
(* C4: DefaultValidator *)

MaxVersionLen == 3
VersionChars == {"3", "2", "."}

OpenApiValues ==
    {JStr(s) : s \in SeqsUpTo(VersionChars, MaxVersionLen)}
        \cup {JNum(3), JNum(2), JNull}

DefaultDocs ==
    {a @@ b : a \in Opt("openapi", OpenApiValues),
              b \in Opt("paths", {EmptyDict})}

InitDefault ==
    /\ spec \in DefaultDocs
    /\ pc = "validate_spec"
    /\ result = Pending
    /\ components_schema = Idle
    /\ files = Idle /\ log = <<>> /\ artifacts = <<>> /\ todo = Idle
    /\ urls_to_jsonld = <<>> /\ cursor = 0 /\ requests = <<>>
    /\ error_message = <<>>

\* DefaultValidator.validate_spec(spec)
DefaultValidateSpec ==
    /\ pc = "validate_spec"
    /\ result' = DefaultValidator_validate_spec(spec)
    /\ pc' = "done"
    /\ UNCHANGED <<spec, components_schema, files, log, artifacts, todo,
                   urls_to_jsonld, cursor, requests, error_message>>

NextDefault == DefaultValidateSpec
SpecDefault == InitDefault /\ [][NextDefault]_vars

\* C4: DefaultValidator.validate_spec succeeds when the openapi field is a
\* string beginning with "3", and in every other case (field missing, another
\* string, a value that is no string) fails with UnsupportedVersion and with
\* nothing else.
C4_UnsupportedVersionOrSuccess ==
    pc = "done" =>
        IF /\ "openapi" \in DOMAIN spec
           /\ spec["openapi"].t = "str"
           /\ StartsWith(spec["openapi"].s, <<"3">>)
        THEN result = Returned
        ELSE result.exc = "UnsupportedVersion"

----------------------------------------------------------------------------
(* Files and JSON text *)

\* pathlib.Path, as far as with_suffix reads it
Path(stem, suffix) == [stem |-> stem, suffix |-> suffix]
with_suffix(path, suffix) == [path EXCEPT !.suffix = suffix]

\* The text of a file is either raw characters, drawn from an alphabet in
\* which no text is a JSON document, or the serialisation of a JSON value.
Raw(chars) == [k |-> "raw", chars |-> chars]
Encoded(value) == [k |-> "json", value |-> value]

\* json.loads(text) raises JSONDecodeError or returns the decoded value
Decodes(text) == text.k = "json"
json_loads(text) == text.value

IsSpace(c) == c \in {" ", "\n", "\t", "\r"}

\* s.strip()
Strip(s) ==
    LET inked == {i \in DOMAIN s : ~IsSpace(s[i])}
    IN  IF inked = {} THEN EmptyStr
        ELSE SubSeq(s, CHOOSE i \in inked : \A j \in inked : i <= j,
                       CHOOSE i \in inked : \A j \in inked : i >= j)

\* path.read_text().strip() == ""; a serialised JSON value is never blank
BlankText(text) == text.k = "raw" /\ Strip(text.chars) = EmptyStr

JList(items) == [t |-> "list", items |-> items]
JDict(items) == [t |-> "dict", items |-> items]

\* bool(v) of a decoded JSON value
JTruthy(v) ==
    CASE v.t = "str" -> v.s # EmptyStr
      [] v.t = "num" -> v.n # 0
      [] v.t = "null" -> FALSE
      [] v.t = "list" -> v.items # <<>>
      [] v.t = "dict" -> v.items # <<>>

----------------------------------------------------------------------------
(* ihan_standards.py: find_urls_in_jsonld, collect_artifacts *)

http_prefix == <<"h", "t", "t", "p", ":", "/", "/">>
https_prefix == <<"h", "t", "t", "p", "s", ":", "/", "/">>

looks_like_url(s) == StartsWith(s, http_prefix) \/ StartsWith(s, https_prefix)

\* the urls list after process_dict(d), in the order of the appends
RECURSIVE process_dict(_)
process_dict(d) ==
    LET RECURSIVE walk(_)
        walk(i) ==
            IF i > Len(d.items) THEN <<>>
            ELSE LET v == d.items[i][2]
                 IN  IF v.t = "str" /\ looks_like_url(v.s)
                     THEN <<v.s>> \o walk(i + 1)
                     ELSE IF v.t = "dict"
                     THEN process_dict(v) \o walk(i + 1)
                     ELSE walk(i + 1)
    IN walk(1)

\* find_urls_in_jsonld on the decoded document: .items() exists on a dict only
find_urls_in_jsonld(json_ld) ==
    IF json_ld.t # "dict"
    THEN [raised |-> Raise("AttributeError", "items"), urls |-> {}]
    ELSE [raised |-> Returned,
          urls |-> {process_dict(json_ld)[i] : i \in DOMAIN process_dict(json_ld)}]

----------------------------------------------------------------------------
(* IhanStandardsValidator(path).validate(), then                           *)
(* JsonLdUrlValidator(path).collect_artifacts() by the driver              *)

SpecPath == Path("spec", ".json")

FileExists(path) == path \in DOMAIN files

UNCHANGED_post == UNCHANGED <<components_schema, todo, urls_to_jsonld, cursor,
                              requests, error_message>>

\* core.py 28-31: json.loads(self.path.read_text())
LoadSpec ==
    /\ pc = "validate"
    /\ log' = Append(log, "load")
    /\ IF Decodes(files[SpecPath])
       THEN /\ spec' = json_loads(files[SpecPath])
            /\ pc' = "loaded"
            /\ UNCHANGED result
       ELSE /\ result' = Raise("InvalidJSON", "Incorrect JSON")
            /\ pc' = "raised"
            /\ UNCHANGED spec
    /\ UNCHANGED <<files, artifacts>> /\ UNCHANGED_post

\* Variant of CallValidateSpec in which validate goes on to the companion
\* files whatever validate_spec raised: C5_PhaseOrder must tell it apart.
CallValidateSpec_Swallowed ==
    /\ pc = "loaded"
    /\ log' = Append(log, "validate_spec")
    /\ pc' = "html_exists"
    /\ UNCHANGED <<spec, files, artifacts, result>> /\ UNCHANGED_post

\* core.py 32: self.validate_spec(spec)
CallValidateSpec ==
    /\ pc = "loaded"
    /\ log' = Append(log, "validate_spec")
    /\ IF validate_spec(spec) = Returned
       THEN pc' = "html_exists" /\ UNCHANGED result
       ELSE pc' = "raised" /\ result' = validate_spec(spec)
    /\ UNCHANGED <<spec, files, artifacts>> /\ UNCHANGED_post

\* ihan_standards.py 132-134
HtmlExists ==
    /\ pc = "html_exists"
    /\ log' = Append(log, "html_exists")
    /\ IF FileExists(with_suffix(SpecPath, ".html"))
       THEN pc' = "html_content" /\ UNCHANGED result
       ELSE /\ pc' = "raised"
            /\ result' = Raise("StandardComponentMissing", "Missing .html")
    /\ UNCHANGED <<spec, files, artifacts>> /\ UNCHANGED_post

\* ihan_standards.py 135-136
HtmlContent ==
    /\ pc = "html_content"
    /\ log' = Append(log, "html_content")
    /\ IF ~BlankText(files[with_suffix(SpecPath, ".html")])
       THEN pc' = "jsonld_exists" /\ UNCHANGED result
       ELSE /\ pc' = "raised"
            /\ result' = Raise("StandardContentMissing", ".html is empty")
    /\ UNCHANGED <<spec, files, artifacts>> /\ UNCHANGED_post

\* ihan_standards.py 138-140
JsonldExists ==
    /\ pc = "jsonld_exists"
    /\ log' = Append(log, "jsonld_exists")
    /\ IF FileExists(with_suffix(SpecPath, ".jsonld"))
       THEN pc' = "jsonld_load" /\ UNCHANGED result
       ELSE /\ pc' = "raised"
            /\ result' = Raise("StandardComponentMissing", "Missing .jsonld")
    /\ UNCHANGED <<spec, files, artifacts>> /\ UNCHANGED_post

\* ihan_standards.py 141-144
JsonldLoad ==
    /\ pc = "jsonld_load"
    /\ log' = Append(log, "jsonld_load")
    /\ IF Decodes(files[with_suffix(SpecPath, ".jsonld")])
       THEN pc' = "jsonld_content" /\ UNCHANGED result
       ELSE /\ pc' = "raised"
            /\ result' = Raise("JSONLDError", "Failed to parse .jsonld")
    /\ UNCHANGED <<spec, files, artifacts>> /\ UNCHANGED_post

\* ihan_standards.py 145-147, and the return of validate
JsonldContent ==
    /\ pc = "jsonld_content"
    /\ log' = Append(log, "jsonld_content")
    /\ IF JTruthy(json_loads(files[with_suffix(SpecPath, ".jsonld")]))
       THEN pc' = "validated" /\ result' = Returned
       ELSE /\ pc' = "raised"
            /\ result' = Raise("StandardContentMissing", ".jsonld is empty")
    /\ UNCHANGED <<spec, files, artifacts>> /\ UNCHANGED_post

\* ihan_standards.py 182-184, called once validate has returned: the
\* artifact {json_ld_path: set of urls} joins the driver's list
CollectArtifacts ==
    /\ pc = "validated"
    /\ LET json_ld_path == with_suffix(SpecPath, ".jsonld")
           found == find_urls_in_jsonld(json_loads(files[json_ld_path]))
       IN  IF found.raised = Returned
           THEN /\ artifacts' = Append(artifacts, (json_ld_path :> found.urls))
                /\ pc' = "collected"
                /\ UNCHANGED result
           ELSE /\ result' = found.raised
                /\ pc' = "collect_raised"
                /\ UNCHANGED artifacts
    /\ UNCHANGED <<spec, files, log>> /\ UNCHANGED_post

NextValidate ==
    \/ LoadSpec
    \/ CallValidateSpec
    \/ HtmlExists
    \/ HtmlContent
    \/ JsonldExists
    \/ JsonldLoad
    \/ JsonldContent
    \/ CollectArtifacts

----------------------------------------------------------------------------
(* The files validate is run on *)

url_a == http_prefix \o <<"a">>
url_b == https_prefix \o <<"b">>
not_url == <<"f", "t", "p", ":", "/", "/", "c">>

JsonAtoms ==
    {JStr(url_a), JStr(url_b), JStr(not_url), JStr(EmptyStr), JNum(0), JNum(1),
     JNull, JList(<<>>), JList(<<JStr(url_a)>>)}

JsonKeys == {"@id", "@context"}

\* every ordered dict over JsonKeys with values in V
JsonDicts(V) ==
    {JDict(d) : d \in UNION {OrderedDicts(JsonKeys, Cardinality(JsonKeys), f) :
                                 f \in [JsonKeys -> V]}}

JsonNested ==
    {JDict(<<>>), JDict(<<<<"@id", JStr(url_a)>>>>),
     JDict(<<<<"@id", JStr(url_b)>>, <<"@context", JStr(url_a)>>>>),
     JDict(<<<<"@id", JList(<<JStr(url_b)>>)>>>>),
     JDict(<<<<"@context", JDict(<<<<"@id", JStr(url_b)>>>>)>>>>)}

JsonLdValues ==
    JsonAtoms \cup JsonDicts(JsonAtoms)
        \cup JsonDicts({JStr(url_a), JStr(not_url)} \cup JsonNested)

MaxHtmlLen == 2
HtmlTexts == {Raw(s) : s \in SeqsUpTo({" ", "\n", "<"}, MaxHtmlLen)}

ConformantDoc ==
    [paths |-> ("/a" :> <<<<"post", ConformantPostRoute>>>>),
     components |-> [schemas |-> (Foo :> ObjectSchema) @@ (Bar :> ObjectSchema)]]

SpecTexts ==
    {Raw(<<"<">>), Encoded(ConformantDoc), Encoded(EmptyDict),
     Encoded([ConformantDoc EXCEPT !["paths"]["/a"] =
                  <<<<"post", ConformantPostRoute>>, <<"get", EmptyDict>>>>]),
     Encoded([ConformantDoc EXCEPT !["paths"]["/a"][1][2]["parameters"] = <<>>])}

JsonldTexts == {Raw(EmptyStr), Raw(<<"<">>)} \cup {Encoded(v) : v \in JsonLdValues}

SmallHtmlTexts == {Raw(<<"<">>), Raw(<<" ">>)}
SmallJsonldTexts ==
    {Raw(<<"<">>), Encoded(JNull), Encoded(JDict(<<>>)),
     Encoded(JDict(<<<<"@id", JStr(url_a)>>>>))}

\* each of the three files varies in full beside a few values of the other
\* two that take validate through each of its branches
FileSystems ==
    {(SpecPath :> s) @@ h @@ j :
        s \in SpecTexts,
        h \in Opt(with_suffix(SpecPath, ".html"), SmallHtmlTexts),
        j \in Opt(with_suffix(SpecPath, ".jsonld"), SmallJsonldTexts)}
    \cup
    {(SpecPath :> Encoded(ConformantDoc)) @@ h @@ j :
        h \in Opt(with_suffix(SpecPath, ".html"), HtmlTexts),
        j \in Opt(with_suffix(SpecPath, ".jsonld"), SmallJsonldTexts)}
    \cup
    {(SpecPath :> Encoded(ConformantDoc)) @@ h @@ j :
        h \in Opt(with_suffix(SpecPath, ".html"), SmallHtmlTexts),
        j \in Opt(with_suffix(SpecPath, ".jsonld"), JsonldTexts)}

InitValidate ==
    /\ files \in FileSystems
    /\ pc = "validate"
    /\ spec = Idle
    /\ result = Pending
    /\ log = <<>>
    /\ artifacts = <<>>
    /\ components_schema = Idle /\ todo = Idle
    /\ urls_to_jsonld = <<>> /\ cursor = 0 /\ requests = <<>>
    /\ error_message = <<>>

SpecValidate == InitValidate /\ [][NextValidate]_vars

----------------------------------------------------------------------------
(* C5 *)

Phases == <<"load", "validate_spec", "html_exists", "html_content",
            "jsonld_exists", "jsonld_load", "jsonld_content">>

HtmlPath == Path("spec", ".html")
JsonldPath == Path("spec", ".jsonld")

\* what each phase requires of the files, stated on the files alone
PhasePasses(i) ==
    CASE i = 1 -> files[SpecPath].k = "json"
      [] i = 2 -> validate_spec(files[SpecPath].value).exc = "none"
      [] i = 3 -> HtmlPath \in DOMAIN files
      [] i = 4 -> ~(files[HtmlPath].k = "raw"
                    /\ \A j \in DOMAIN files[HtmlPath].chars :
                           IsSpace(files[HtmlPath].chars[j]))
      [] i = 5 -> JsonldPath \in DOMAIN files
      [] i = 6 -> files[JsonldPath].k = "json"
      [] i = 7 -> JTruthy(files[JsonldPath].value)

\* the first phase that fails, Len(Phases) + 1 when none does
FirstFailure ==
    IF \A i \in DOMAIN Phases : PhasePasses(i) THEN Len(Phases) + 1
    ELSE CHOOSE i \in DOMAIN Phases :
             /\ ~PhasePasses(i)
             /\ \A j \in 1..(i - 1) : PhasePasses(j)

ErrorOf(i) ==
    CASE i = 1 -> Raise("InvalidJSON", "Incorrect JSON")
      [] i = 2 -> validate_spec(files[SpecPath].value)
      [] i = 3 -> Raise("StandardComponentMissing", "Missing .html")
      [] i = 4 -> Raise("StandardContentMissing", ".html is empty")
      [] i = 5 -> Raise("StandardComponentMissing", "Missing .jsonld")
      [] i = 6 -> Raise("JSONLDError", "Failed to parse .jsonld")
      [] i = 7 -> Raise("StandardContentMissing", ".jsonld is empty")

\* C5: validate enters its phases in the fixed order (parse the spec file,
\* validate_spec, .html exists, .html not blank, .jsonld exists, .jsonld
\* parses, .jsonld not empty), enters no phase after the first one that
\* fails, raises that phase's error and nothing else, and returns only when
\* every phase passed.
C5_PhaseOrder ==
    /\ Len(log) <= Len(Phases)
    /\ log = SubSeq(Phases, 1, Len(log))
    /\ Len(log) <= FirstFailure
    /\ pc = "raised" =>
           /\ Len(log) = FirstFailure
           /\ result = ErrorOf(FirstFailure)
           /\ ~ENABLED NextValidate
    /\ pc \notin {"raised", "collect_raised"} => result \in {Pending, Returned}
    /\ pc = "validated" => (log = Phases /\ FirstFailure = Len(Phases) + 1)

\* the last phase fails, after every earlier phase was entered and passed
C5_Witness ==
    /\ pc = "raised"
    /\ log = Phases
    /\ result.exc = "StandardContentMissing"

----------------------------------------------------------------------------
(* C10 *)

\* the strings beginning with http:// or https:// that are reached from v
\* through dictionary values only
RECURSIVE UrlsUnder(_)
UrlsUnder(v) ==
    IF v.t # "dict" THEN {}
    ELSE UNION {LET w == v.items[i][2]
                IN  IF w.t = "str"
                    THEN IF \E p \in {http_prefix, https_prefix} :
                                Len(w.s) >= Len(p) /\ SubSeq(w.s, 1, Len(p)) = p
                         THEN {w.s} ELSE {}
                    ELSE UrlsUnder(w) : i \in DOMAIN v.items}

\* C10: for every companion .jsonld document that passes the companion check
\* of validate, collect_artifacts returns the single-entry mapping from the
\* companion file's path to the set of URL strings reached through
\* dictionary nesting only.
C10_ArtifactOfEveryCheckedDocument ==
    pc \in {"collected", "collect_raised"} =>
        /\ pc = "collected"
        /\ artifacts = <<(JsonldPath :> UrlsUnder(files[JsonldPath].value))>>

----------------------------------------------------------------------------
(* ihan_standards.py: JsonLdUrlValidator.run_post_validation(artifacts) *)

MaxArtifacts == 3

JsonldPaths == {Path("a", ".jsonld"), Path("b", ".jsonld")}
Urls == {url_a, url_b}

\* what collect_artifacts returns: {json_ld_path: set of urls}
Artifacts == {(p :> us) : p \in JsonldPaths, us \in SUBSET Urls}

\* the (path, url) pairs the two inner loops of lines 190-191 go through
Pairs(artifact) ==
    UNION {{<<p, u>> : u \in artifact[p]} : p \in DOMAIN artifact}

InitPost ==
    /\ artifacts \in SeqsUpTo(Artifacts, MaxArtifacts)
    /\ pc = "invert"
    /\ todo = [i |-> 0, left |-> {}]
    /\ urls_to_jsonld = <<>>
    /\ cursor = 0
    /\ requests = <<>>
    /\ error_message = <<>>
    /\ result = Pending
    /\ spec = Idle /\ components_schema = Idle /\ files = Idle /\ log = <<>>

\* Variant of defaultdict_append that keeps one entry per occurrence of a URL
\* (a list of pairs in place of the dict): C6_EachUrlProbedOnce must tell it
\* apart.
defaultdict_append_PerOccurrence(d, url, path) ==
    Append(d, <<url, <<path>>>>)

\* urls_to_jsonld[url].append(json_ld_path) on a defaultdict(list): a new
\* key goes last, an old one keeps its place
defaultdict_append(d, url, path) ==
    IF \E i \in DOMAIN d : d[i][1] = url
    THEN [i \in DOMAIN d |->
             IF d[i][1] = url THEN <<url, Append(d[i][2], path)>> ELSE d[i]]
    ELSE Append(d, <<url, <<path>>>>)

\* line 189: the next artifact of the list
NextArtifact ==
    /\ pc = "invert"
    /\ todo.left = {}
    /\ todo.i < Len(artifacts)
    /\ todo' = [i |-> todo.i + 1, left |-> Pairs(artifacts[todo.i + 1])]
    /\ UNCHANGED <<spec, components_schema, files, pc, result, log, artifacts,
                   urls_to_jsonld, cursor, requests, error_message>>

\* lines 190-192: one url of the artifact; a set is iterated in any order
InvertUrl ==
    /\ pc = "invert"
    /\ \E pu \in todo.left :
           /\ urls_to_jsonld' = defaultdict_append(urls_to_jsonld, pu[2], pu[1])
           /\ todo' = [todo EXCEPT !.left = @ \ {pu}]
    /\ UNCHANGED <<spec, components_schema, files, pc, result, log, artifacts,
                   cursor, requests, error_message>>

\* line 194, the loops being over
StartProbing ==
    /\ pc = "invert"
    /\ todo.left = {}
    /\ todo.i = Len(artifacts)
    /\ error_message' = <<>>
    /\ cursor' = 1
    /\ pc' = "probe"
    /\ UNCHANGED <<spec, components_schema, files, result, log, artifacts, todo,
                   urls_to_jsonld, requests>>

\* f"Failed to fetch {url} (found in {jsonld_files})\n"
ReportLine(entry) == [failed_to_fetch |-> entry[1], found_in |-> entry[2]]

Probing == pc = "probe" /\ cursor <= Len(urls_to_jsonld)

\* lines 196-197: the response has a success status
ProbeSucceeds ==
    /\ Probing
    /\ requests' = Append(requests, <<urls_to_jsonld[cursor][1], "ok">>)
    /\ cursor' = cursor + 1
    /\ UNCHANGED <<spec, components_schema, files, pc, result, log, artifacts,
                   todo, urls_to_jsonld, error_message>>

\* Variant of ProbeBadStatus without raise_for_status, a bad status passing
\* for a success: C7_ReportOfFailedUrls must tell it apart.
ProbeBadStatus_Unchecked ==
    /\ pc = "probe" /\ cursor <= Len(urls_to_jsonld)
    /\ requests' = Append(requests, <<urls_to_jsonld[cursor][1], "bad status">>)
    /\ cursor' = cursor + 1
    /\ UNCHANGED <<spec, components_schema, files, pc, result, log, artifacts,
                   todo, urls_to_jsonld, error_message>>

\* lines 197-200: raise_for_status raises HTTPError, caught at line 198
ProbeBadStatus ==
    /\ Probing
    /\ requests' = Append(requests, <<urls_to_jsonld[cursor][1], "bad status">>)
    /\ error_message' = Append(error_message, ReportLine(urls_to_jsonld[cursor]))
    /\ cursor' = cursor + 1
    /\ UNCHANGED <<spec, components_schema, files, pc, result, log, artifacts,
                   todo, urls_to_jsonld>>

\* Variant of ProbeTransportFails without the except clause, the exception
\* leaving run_post_validation: C8_FailuresDoNotAbort must tell it apart.
ProbeTransportFails_Propagates ==
    /\ pc = "probe" /\ cursor <= Len(urls_to_jsonld)
    /\ requests' = Append(requests, <<urls_to_jsonld[cursor][1], "exception">>)
    /\ result' = Raise("ConnectionError", "")
    /\ pc' = "aborted"
    /\ UNCHANGED <<spec, components_schema, files, log, artifacts, todo,
                   urls_to_jsonld, cursor, error_message>>

\* lines 197-200: requests.get raises (no connection, timeout, bad url),
\* caught at line 198
ProbeTransportFails ==
    /\ Probing
    /\ requests' = Append(requests, <<urls_to_jsonld[cursor][1], "exception">>)
    /\ error_message' = Append(error_message, ReportLine(urls_to_jsonld[cursor]))
    /\ cursor' = cursor + 1
    /\ UNCHANGED <<spec, components_schema, files, pc, result, log, artifacts,
                   todo, urls_to_jsonld>>

NoneValue == [t |-> "None"]
Message(lines) == [t |-> "str", lines |-> lines]

\* line 202: error_message or None
ReturnReport ==
    /\ pc = "probe"
    /\ cursor > Len(urls_to_jsonld)
    /\ result' = [exc |-> "none", msg |-> "",
                  value |-> IF error_message = <<>> THEN NoneValue
                            ELSE Message(error_message)]
    /\ pc' = "returned"
    /\ UNCHANGED <<spec, components_schema, files, log, artifacts, todo,
                   urls_to_jsonld, cursor, requests, error_message>>

NextPost ==
    \/ NextArtifact
    \/ InvertUrl
    \/ StartProbing
    \/ ProbeSucceeds
    \/ ProbeBadStatus
    \/ ProbeTransportFails
    \/ ReturnReport

SpecPost == InitPost /\ [][NextPost]_vars

----------------------------------------------------------------------------
(* C6, C7, C8 *)

\* every URL occurring in some artifact
UrlsIn(arts) ==
    UNION {UNION {arts[i][p] : p \in DOMAIN arts[i]} : i \in DOMAIN arts}

\* the companion files whose artifact contains the URL
Referrers(u) ==
    UNION {{p \in DOMAIN artifacts[i] : u \in artifacts[i][p]} :
               i \in DOMAIN artifacts}

ProbesOf(u) == {i \in DOMAIN requests : requests[i][1] = u}
ProbeFailed(u) == \E i \in ProbesOf(u) : requests[i][2] # "ok"

\* C6: each distinct URL occurring in an artifact is probed exactly once
\* during the call, however many artifacts contain it, and no other URL is
\* probed.
C6_EachUrlProbedOnce ==
    /\ \A i \in DOMAIN requests : requests[i][1] \in UrlsIn(artifacts)
    /\ \A u \in UrlsIn(artifacts) : Cardinality(ProbesOf(u)) <= 1
    /\ pc = "returned" =>
           \A u \in UrlsIn(artifacts) : Cardinality(ProbesOf(u)) = 1

\* a URL that two artifacts contain has been probed once at the return
C6_Witness ==
    /\ pc = "returned"
    /\ \E u \in Urls : \E i, j \in DOMAIN artifacts :
           /\ i # j
           /\ u \in UrlsIn(<<artifacts[i]>>) \cap UrlsIn(<<artifacts[j]>>)
           /\ Cardinality(ProbesOf(u)) = 1

\* the lines of the returned report, none when None is returned
ReturnedLines ==
    IF result.value.t = "None" THEN <<>> ELSE result.value.lines

LinesOf(u) ==
    {i \in DOMAIN ReturnedLines : ReturnedLines[i].failed_to_fetch = u}

\* C7: the returned report has one line for a URL exactly when its probe
\* failed; the line lists the companion files whose artifact contains the
\* URL and no other; URLs whose probe succeeded are not mentioned; None is
\* returned exactly when no probe failed.
C7_ReportOfFailedUrls ==
    pc = "returned" =>
        /\ \A i \in DOMAIN ReturnedLines :
               ReturnedLines[i].failed_to_fetch \in UrlsIn(artifacts)
        /\ \A u \in UrlsIn(artifacts) :
               /\ ProbeFailed(u) => Cardinality(LinesOf(u)) = 1
               /\ ~ProbeFailed(u) => LinesOf(u) = {}
               /\ \A i \in LinesOf(u) :
                      {ReturnedLines[i].found_in[k] :
                           k \in DOMAIN ReturnedLines[i].found_in} = Referrers(u)
        /\ result.value = NoneValue
               <=> ~\E u \in UrlsIn(artifacts) : ProbeFailed(u)

\* one URL failed and is attributed to two files, the other succeeded and
\* is not mentioned
C7_Witness ==
    /\ pc = "returned"
    /\ \E u, v \in Urls :
           /\ ProbeFailed(u) /\ Cardinality(Referrers(u)) = 2
           /\ ProbesOf(v) # {} /\ ~ProbeFailed(v) /\ LinesOf(v) = {}
           /\ Cardinality(LinesOf(u)) = 1

\* C8: a failed probe never aborts the call: whatever the outcomes of the
\* probes, the call goes on until it returns, and at the return every
\* distinct URL has been probed, also those after a failed probe.
C8_FailuresDoNotAbort ==
    /\ pc \in {"invert", "probe", "returned"}
    /\ pc # "returned" => ENABLED NextPost
    /\ pc = "returned" => \A u \in UrlsIn(artifacts) : ProbesOf(u) # {}
    /\ \A i \in DOMAIN requests :
           requests[i][2] # "ok" => (cursor > i /\ pc \in {"probe", "returned"})

\* the call returned after a transport failure followed by a bad status
C8_Witness ==
    /\ pc = "returned"
    /\ Len(requests) = 2
    /\ requests[1][2] = "exception"
    /\ requests[2][2] = "bad status"

====
